---- MODULE Spec2Model ----
(***************************************************************************)
(* Model of golem's `run` command (src/golem/commands/base.py, class       *)
(* RunCommand) and of the test runner it hands the resolved target to.     *)
(*                                                                         *)
(* RunCommand.run is translated statement by statement: every query it     *)
(* sends to golem.core.utils is appended to `queries`, every call into     *)
(* golem.core.test_runner is appended to `calls`, and an exception that    *)
(* leaves the method is kept in `raised`.  The test runner itself          *)
(* (golem.core.test_runner) is not part of the source tree; it is          *)
(* modelled after the design document (plan builder, driver pool, worker   *)
(* scheduler, result aggregator).                                          *)
(***************************************************************************)
EXTENDS Integers, Sequences, FiniteSets, TLC

VARIABLES
    catalog,         \* the on-disk project tree (read only during a run)
    args,            \* the argparse namespace handed to RunCommand.run
    test_execution,  \* the shared execution-context object
    pc,              \* position inside RunCommand.run
    queries,         \* golem.core.utils calls made so far, in order
    calls,           \* golem.core.test_runner calls made so far, in order
    raised,          \* the exception that left RunCommand.run, if any
    plan,            \* test runner: the work items of the run, in plan order
    pending,         \* test runner: FIFO queue of work items not yet dequeued
    workers,         \* test runner: per worker, its position in the worker loop
    pool,            \* test runner: driver sessions and who holds them
    recorded,        \* test runner: outcomes in the order they were recorded
    schedState,      \* test runner: Idle / Dispatching / Draining / Completed
    cancelled        \* test runner: the run was cancelled

vars == <<catalog, args, test_execution, pc, queries, calls, raised,
          plan, pending, workers, pool, recorded, schedState, cancelled>>

cmdVars == <<catalog, args, test_execution, pc, queries, calls, raised>>
runnerVars == <<plan, pending, workers, pool, recorded, schedState, cancelled>>

----------------------------------------------------------------------------
(* Bounds of the model.                                                    *)

\* largest value given to --threads
MaxThreads == 2
\* largest number of test cases stored in a suite / lying under a directory
MaxTests == 2
\* largest plan (test cases x driver kinds) the workers are explored with
MaxItems == 4

----------------------------------------------------------------------------
(* Names.  A test-case, directory or suite name is a dotted path; it is    *)
(* kept as the sequence of its segments, so "" is <<>> and "login.admin"   *)
(* is <<"login", "admin">>.                                                *)

\* the segments used in names, in lexical order
Alphabet == <<"admin", "login", "smoke", "t1", "t2", "t3">>

Rank(seg) == CHOOSE i \in 1..Len(Alphabet) : Alphabet[i] = seg

\* leaf names of the generated test cases, in lexical order
Leaves == <<"t1", "t2", "t3">>

\* parser.add_argument('-t', '--threads', ..., default=0, type=int)
DefaultThreads == 0

\* parser.add_argument('-d', '--drivers', ..., choices=['firefox', 'chrome'])
DriverChoices == {"firefox", "chrome"}

\* a value of args.drivers: None when -d is absent, else the list given
NoDrivers == [given |-> FALSE, kinds |-> <<>>]

DriverList(kinds) == [given |-> TRUE, kinds |-> kinds]

DriverArgs ==
    {NoDrivers, DriverList(<<>>), DriverList(<<"chrome">>), DriverList(<<"firefox">>),
     DriverList(<<"chrome", "firefox">>), DriverList(<<"firefox", "chrome">>),
     DriverList(<<"chrome", "chrome">>)}

\* args.threads: the default, or the number given (a bare -t, which argparse
\* turns into None, and negative numbers are left out)
ThreadArgs == {DefaultThreads} \cup (1..MaxThreads)

\* args.timestamp: None (kept as "") when --timestamp is absent
TimestampArgs == {"", "2017.01.01.10.00.00"}

ProjectArgs == {"", "demo", "ghost"}

\* names that may at once be a suite, a directory and a test case
CollisionNames == {<<"login">>, <<"login", "admin">>}

TargetArgs == {<<>>, <<"smoke">>, <<"login", "t1">>} \cup CollisionNames

Args == [project : ProjectArgs, test_or_suite : TargetArgs, threads : ThreadArgs,
         drivers : DriverArgs, timestamp : TimestampArgs]

----------------------------------------------------------------------------
(* The catalog: the project tree golem.core.utils answers from.            *)

IsPrefix(p, q) == Len(p) <= Len(q) /\ SubSeq(q, 1, Len(p)) = p

\* every directory's parent directory exists too
DirClosed(dirs) == \A d \in dirs : Len(d) > 1 => SubSeq(d, 1, Len(d) - 1) \in dirs

Catalog(suites, stored, dirs, tests) ==
    [projects |-> {"demo"}, suites |-> suites, stored |-> stored,
     dirs |-> dirs, tests |-> tests]

\* every way the collision names can be suites, directories and test cases
CollisionCatalogs ==
    {Catalog(s, <<>>, d, t) :
        s \in SUBSET CollisionNames,
        d \in {x \in SUBSET CollisionNames : DirClosed(x)},
        t \in SUBSET CollisionNames}

\* the test cases login.t1 .. login.tn
LoginTests(n) == [i \in 1..n |-> <<"login", Leaves[i]>>]

Range(f) == {f[i] : i \in DOMAIN f}

\* project demo with suite smoke = [login.t1 .. login.tn] (stored in reverse
\* order) and directory login holding the same n test cases
RunCatalogs ==
    {Catalog({<<"smoke">>}, [i \in 1..n |-> LoginTests(n)[n + 1 - i]],
             {<<"login">>}, Range(LoginTests(n))) : n \in 0..MaxTests}

\* utils.get_projects(root_path)
get_projects(cat) == cat.projects

\* utils.test_suite_exists(root_path, project, name)
test_suite_exists(cat, project, name) == project \in cat.projects /\ name \in cat.suites

\* utils.is_first_level_directory(root_path, project, name): the name is a
\* directory directly inside the project's test-cases directory
is_first_level_directory(cat, project, name) ==
    project \in cat.projects /\ name \in cat.dirs /\ Len(name) = 1

\* utils.test_case_exists(root_path, project, name)
test_case_exists(cat, project, name) == project \in cat.projects /\ name \in cat.tests

----------------------------------------------------------------------------
(* RunCommand.run                                                          *)

\* an exception: its class, which message it carries and the value the
\* message was formatted with (a name, as a path)
NoException == [exc |-> "none", text |-> "", value |-> <<>>]

Raise(exc, text, value) == [exc |-> exc, text |-> text, value |-> value]

\* `parser` is no name of the module or of the method: evaluating
\* parser.usage raises NameError
ParserUsage == Raise("NameError", "name 'parser' is not defined", <<>>)

\* the namespace argparse builds when no argument is given
DefaultArgs ==
    [project |-> "", test_or_suite |-> <<>>, threads |-> DefaultThreads,
     drivers |-> NoDrivers, timestamp |-> ""]

\* the execution context before RunCommand.run touched it; `assigned` keeps
\* the attributes the method has set
FreshExecution ==
    [thread_amount |-> 0, drivers |-> NoDrivers, timestamp |-> "",
     project |-> "", suite |-> <<>>, test |-> <<>>, settings |-> "",
     assigned |-> {}]

Assign(te, field, value) ==
    [te EXCEPT ![field] = value, !.assigned = @ \cup {field}]

Call(fn, project, name, is_directory) ==
    [fn |-> fn, project |-> project, name |-> name, is_directory |-> is_directory]

\* the command line is parsed and RunCommand.run(test_execution, args) entered
Invoke(argSpace) ==
    /\ pc = "idle"
    /\ \E a \in argSpace : args' = a
    /\ pc' = "assign"
    /\ UNCHANGED <<catalog, test_execution, queries, calls, raised, runnerVars>>

\* AssignArgs with an off-by-one on the thread amount
AssignArgsOneMoreThread ==
    /\ pc = "assign"
    /\ test_execution' =
          Assign(Assign(Assign(test_execution, "thread_amount", args.threads + 1),
                        "drivers", args.drivers),
                 "timestamp", args.timestamp)
    /\ pc' = "check_project"
    /\ UNCHANGED <<catalog, args, queries, calls, raised, runnerVars>>

\* AssignArgs that forgets to copy the driver list
AssignArgsWithoutDrivers ==
    /\ pc = "assign"
    /\ test_execution' =
          Assign(Assign(test_execution, "thread_amount", args.threads),
                 "timestamp", args.timestamp)
    /\ pc' = "check_project"
    /\ UNCHANGED <<catalog, args, queries, calls, raised, runnerVars>>

\* lines 46-51: the run configuration is copied onto the execution context
AssignArgs ==
    /\ pc = "assign"
    /\ test_execution' =
          Assign(Assign(Assign(test_execution, "thread_amount", args.threads),
                        "drivers", args.drivers),
                 "timestamp", args.timestamp)
    /\ pc' = "check_project"
    /\ UNCHANGED <<catalog, args, queries, calls, raised, runnerVars>>

\* CheckProject without its `elif`: an unknown project is let through
CheckProjectNoElif ==
    /\ pc = "check_project"
    /\ IF args.project = ""
       THEN /\ raised' = ParserUsage
            /\ pc' = "raised"
            /\ UNCHANGED <<test_execution, queries>>
       ELSE /\ queries' = queries \o <<"get_projects", "get_project_settings">>
            /\ test_execution' =
                  Assign(Assign(test_execution, "project", args.project),
                         "settings", args.project)
            /\ pc' = "check_target"
            /\ UNCHANGED raised
    /\ UNCHANGED <<catalog, args, calls, runnerVars>>

\* lines 53-67: no project / unknown project / known project
CheckProject ==
    /\ pc = "check_project"
    /\ IF args.project = ""
       THEN /\ raised' = ParserUsage
            /\ pc' = "raised"
            /\ UNCHANGED <<test_execution, queries>>
       ELSE IF args.project \notin get_projects(catalog)
       THEN /\ queries' = Append(queries, "get_projects")
            /\ raised' = Raise("CommandException", "the project {0} does not exist",
                               <<test_execution.project>>)
            /\ pc' = "raised"
            /\ UNCHANGED test_execution
       ELSE /\ queries' = queries \o <<"get_projects", "get_project_settings">>
            /\ test_execution' =
                  Assign(Assign(test_execution, "project", args.project),
                         "settings", args.project)
            /\ pc' = "check_target"
            /\ UNCHANGED raised
    /\ UNCHANGED <<catalog, args, calls, runnerVars>>

\* lines 69-80: no test_or_suite value
CheckTarget ==
    /\ pc = "check_target"
    /\ IF args.test_or_suite = <<>>
       THEN /\ raised' = ParserUsage
            /\ pc' = "raised"
       ELSE /\ pc' = "try_suite"
            /\ UNCHANGED raised
    /\ UNCHANGED <<catalog, args, test_execution, queries, calls, runnerVars>>

\* TrySuite with the directory test moved in front of the suite test
TrySuiteAfterDirectory ==
    /\ pc = "try_suite"
    /\ IF is_first_level_directory(catalog, test_execution.project, args.test_or_suite)
       THEN /\ queries' = Append(queries, "is_first_level_directory")
            /\ test_execution' = Assign(test_execution, "suite", args.test_or_suite)
            /\ calls' = Append(calls, Call("run_suite", test_execution.project,
                                           args.test_or_suite, TRUE))
            /\ pc' = "in_runner"
       ELSE IF test_suite_exists(catalog, test_execution.project, args.test_or_suite)
       THEN /\ queries' = queries \o <<"is_first_level_directory", "test_suite_exists">>
            /\ test_execution' = Assign(test_execution, "suite", args.test_or_suite)
            /\ calls' = Append(calls, Call("run_suite", test_execution.project,
                                           args.test_or_suite, FALSE))
            /\ pc' = "in_runner"
       ELSE /\ queries' = queries \o <<"is_first_level_directory", "test_suite_exists">>
            /\ pc' = "try_directory"
            /\ UNCHANGED <<test_execution, calls>>
    /\ UNCHANGED <<catalog, args, raised, runnerVars>>

\* lines 82-88: the value names a declared suite
TrySuite ==
    /\ pc = "try_suite"
    /\ queries' = Append(queries, "test_suite_exists")
    /\ IF test_suite_exists(catalog, test_execution.project, args.test_or_suite)
       THEN /\ test_execution' = Assign(test_execution, "suite", args.test_or_suite)
            /\ calls' = Append(calls, Call("run_suite", test_execution.project,
                                           args.test_or_suite, FALSE))
            /\ pc' = "in_runner"
       ELSE /\ pc' = "try_directory"
            /\ UNCHANGED <<test_execution, calls>>
    /\ UNCHANGED <<catalog, args, raised, runnerVars>>

\* TryDirectory with `if` for `elif` behind it: after the directory was run
\* the test-case branch is evaluated as well
TryDirectoryFallsThrough ==
    /\ pc = "try_directory"
    /\ queries' = Append(queries, "is_first_level_directory")
    /\ IF is_first_level_directory(catalog, test_execution.project, args.test_or_suite)
       THEN /\ test_execution' = Assign(test_execution, "suite", args.test_or_suite)
            /\ calls' = Append(calls, Call("run_suite", test_execution.project,
                                           args.test_or_suite, TRUE))
       ELSE UNCHANGED <<test_execution, calls>>
    /\ pc' = "try_test_case"
    /\ UNCHANGED <<catalog, args, raised, runnerVars>>

\* TryDirectory that forgets is_directory=True
TryDirectoryAsSuite ==
    /\ pc = "try_directory"
    /\ queries' = Append(queries, "is_first_level_directory")
    /\ IF is_first_level_directory(catalog, test_execution.project, args.test_or_suite)
       THEN /\ test_execution' = Assign(test_execution, "suite", args.test_or_suite)
            /\ calls' = Append(calls, Call("run_suite", test_execution.project,
                                           args.test_or_suite, FALSE))
            /\ pc' = "in_runner"
       ELSE /\ pc' = "try_test_case"
            /\ UNCHANGED <<test_execution, calls>>
    /\ UNCHANGED <<catalog, args, raised, runnerVars>>

\* lines 93-101: the value names a first level directory of the test cases
TryDirectory ==
    /\ pc = "try_directory"
    /\ queries' = Append(queries, "is_first_level_directory")
    /\ IF is_first_level_directory(catalog, test_execution.project, args.test_or_suite)
       THEN /\ test_execution' = Assign(test_execution, "suite", args.test_or_suite)
            /\ calls' = Append(calls, Call("run_suite", test_execution.project,
                                           args.test_or_suite, TRUE))
            /\ pc' = "in_runner"
       ELSE /\ pc' = "try_test_case"
            /\ UNCHANGED <<test_execution, calls>>
    /\ UNCHANGED <<catalog, args, raised, runnerVars>>

\* TryTestCase whose error message is formatted with test_execution.test
TryTestCaseWrongName ==
    /\ pc = "try_test_case"
    /\ queries' = Append(queries, "test_case_exists")
    /\ IF test_case_exists(catalog, test_execution.project, args.test_or_suite)
       THEN /\ test_execution' = Assign(test_execution, "test", args.test_or_suite)
            /\ calls' = Append(calls, Call("run_single_test_case", test_execution.project,
                                           args.test_or_suite, FALSE))
            /\ pc' = "in_runner"
            /\ UNCHANGED raised
       ELSE /\ raised' = Raise("CommandException",
                               "the value {0} does not match an existing suite or test",
                               test_execution.test)
            /\ pc' = "raised"
            /\ UNCHANGED <<test_execution, calls>>
    /\ UNCHANGED <<catalog, args, runnerVars>>

\* lines 103-114: the value names a test case, or nothing at all
TryTestCase ==
    /\ pc = "try_test_case"
    /\ queries' = Append(queries, "test_case_exists")
    /\ IF test_case_exists(catalog, test_execution.project, args.test_or_suite)
       THEN /\ test_execution' = Assign(test_execution, "test", args.test_or_suite)
            /\ calls' = Append(calls, Call("run_single_test_case", test_execution.project,
                                           args.test_or_suite, FALSE))
            /\ pc' = "in_runner"
            /\ UNCHANGED raised
       ELSE /\ raised' = Raise("CommandException",
                               "the value {0} does not match an existing suite or test",
                               args.test_or_suite)
            /\ pc' = "raised"
            /\ UNCHANGED <<test_execution, calls>>
    /\ UNCHANGED <<catalog, args, runnerVars>>

\* the test runner call returns, and with it RunCommand.run
RunnerReturns ==
    /\ pc = "in_runner"
    /\ pc' = "returned"
    /\ UNCHANGED <<catalog, args, test_execution, queries, calls, raised, runnerVars>>

InitWith(catalogs) ==
    /\ catalog \in catalogs
    /\ args = DefaultArgs
    /\ test_execution = FreshExecution
    /\ pc = "idle"
    /\ queries = <<>>
    /\ calls = <<>>
    /\ raised = NoException
    /\ plan = <<>>
    /\ pending = <<>>
    /\ workers = <<>>
    /\ pool = <<>>
    /\ recorded = <<>>
    /\ schedState = "Idle"
    /\ cancelled = FALSE

Init == InitWith(CollisionCatalogs)

Next ==
    \/ Invoke(Args)
    \/ AssignArgs
    \/ CheckProject
    \/ CheckTarget
    \/ TrySuite
    \/ TryDirectory
    \/ TryTestCase
    \/ RunnerReturns

Spec == Init /\ [][Next]_vars

----------------------------------------------------------------------------
(* The test runner behind run_suite / run_single_test_case.  Its code is   *)
(* not in the source tree; the definitions below follow the design         *)
(* document: Catalog Resolver results (4.1), Execution Plan Builder (4.2), *)
(* Driver Pool (4.3), Worker Scheduler (4.4), Result Aggregator (4.5) and  *)
(* the cancellation rule of section 5.                                     *)

\* consecutive launch failures after which a driver kind is given up
FailThreshold == 2

\* the driver kind used when the caller names none
DefaultDriver == "firefox"

RECURSIVE PathLess(_, _)
\* lexical order on paths, segment by segment
PathLess(p, q) ==
    IF p = <<>> THEN q # <<>>
    ELSE IF q = <<>> THEN FALSE
    ELSE IF Head(p) = Head(q) THEN PathLess(Tail(p), Tail(q))
    ELSE Rank(Head(p)) < Rank(Head(q))

RECURSIVE SortPaths(_)
SortPaths(S) ==
    IF S = {} THEN <<>>
    ELSE LET m == CHOOSE x \in S : \A y \in S \ {x} : PathLess(x, y)
         IN  <<m>> \o SortPaths(S \ {m})

\* 4.1: the ordered test-case list a test runner call stands for
Resolution(cat, call) ==
    IF call.fn = "run_single_test_case" THEN <<call.name>>
    ELSE IF call.is_directory
    THEN SortPaths({t \in cat.tests : IsPrefix(call.name, t) /\ t # call.name})
    ELSE cat.stored

RECURSIVE Dedupe(_)
\* the kinds of a driver list, each once, in order of first mention
Dedupe(kinds) ==
    IF kinds = <<>> THEN <<>>
    ELSE LET rest == Dedupe(SubSeq(kinds, 1, Len(kinds) - 1))
             last == kinds[Len(kinds)]
         IN  IF last \in Range(rest) THEN rest ELSE Append(rest, last)

\* 4.2: every requested driver kind, or the single default kind
PlanKinds(drivers) ==
    IF drivers.given /\ drivers.kinds # <<>> THEN Dedupe(drivers.kinds)
    ELSE <<DefaultDriver>>

\* 4.2: an empty timestamp is generated
RunTimestamp(ts) == IF ts = "" THEN "generated" ELSE ts

\* 4.2: one work item per test case per driver kind, test cases in
\* resolution order, kinds in the order requested
BuildPlan(tests, kinds, te, call) ==
    [i \in 1..(Len(tests) * Len(kinds)) |->
        [test |-> tests[((i - 1) \div Len(kinds)) + 1],
         driver |-> kinds[((i - 1) % Len(kinds)) + 1],
         timestamp |-> RunTimestamp(te.timestamp),
         project |-> call.project,
         target |-> call.name]]

\* 4.4: N = max(1, thread amount)
NumWorkers(thread_amount) == IF thread_amount > 1 THEN thread_amount ELSE 1

IdleWorker == [state |-> "idle", item |-> 0, session |-> 0, status |-> ""]

\* a session slot: -1 not launched, 0 free, w > 0 held by worker w
NewPool(kinds, n) ==
    [k \in Range(kinds) |->
        [holder |-> [s \in 1..n |-> -1], failures |-> 0, available |-> TRUE]]

\* the plan is built and the worker pool set up
StartRun ==
    /\ pc = "in_runner"
    /\ schedState = "Idle"
    /\ LET call == calls[Len(calls)]
           kinds == PlanKinds(test_execution.drivers)
           n == NumWorkers(test_execution.thread_amount)
           items == BuildPlan(Resolution(catalog, call), kinds, test_execution, call)
       IN  /\ plan' = items
           /\ pending' = items
           /\ workers' = [w \in 1..n |-> IdleWorker]
           /\ pool' = NewPool(kinds, n)
           /\ schedState' = IF items = <<>> THEN "Draining" ELSE "Dispatching"
    /\ UNCHANGED <<cmdVars, recorded, cancelled>>

\* index in the plan of the head of the pending queue
NextItem == Len(plan) - Len(pending) + 1

\* Dequeue that hands out the head of the queue and drops the item behind it
DequeueSkipsOne(w) ==
    /\ schedState = "Dispatching"
    /\ workers[w].state = "idle"
    /\ workers' = [workers EXCEPT ![w] = [IdleWorker EXCEPT !.state = "acquiring",
                                                            !.item = NextItem]]
    /\ pending' = IF Len(pending) > 1 THEN Tail(Tail(pending)) ELSE <<>>
    /\ schedState' = IF pending' = <<>> THEN "Draining" ELSE "Dispatching"
    /\ UNCHANGED <<cmdVars, plan, pool, recorded, cancelled>>

\* 4.4 / 5: an idle worker takes the next work item of the queue (FIFO); an
\* item taken after cancellation is skipped, an item of a driver kind that
\* was given up fails without an acquisition attempt
Dequeue(w) ==
    /\ schedState = "Dispatching"
    /\ workers[w].state = "idle"
    /\ LET i == NextItem
           k == plan[i].driver
       IN  workers' = [workers EXCEPT ![w] =
              IF cancelled
              THEN [IdleWorker EXCEPT !.state = "emitting", !.item = i, !.status = "skipped"]
              ELSE IF ~pool[k].available
              THEN [IdleWorker EXCEPT !.state = "emitting", !.item = i, !.status = "error"]
              ELSE [IdleWorker EXCEPT !.state = "acquiring", !.item = i]]
    /\ pending' = Tail(pending)
    /\ schedState' = IF pending' = <<>> THEN "Draining" ELSE "Dispatching"
    /\ UNCHANGED <<cmdVars, plan, pool, recorded, cancelled>>

Least(S) == CHOOSE x \in S : \A y \in S : x <= y

\* the session slots of kind k that acquire may hand out
FreeSlots(k) == {s \in DOMAIN pool[k].holder : pool[k].holder[s] = 0}
NewSlots(k) == {s \in DOMAIN pool[k].holder : pool[k].holder[s] = -1}

\* Acquire that hands out the first launched session whoever holds it
AcquireHeldSession(w) ==
    /\ workers[w].state = "acquiring"
    /\ LET k == plan[workers[w].item].driver
           live == {s \in DOMAIN pool[k].holder : pool[k].holder[s] # -1}
       IN  IF live # {}
           THEN /\ pool' = [pool EXCEPT ![k].holder[Least(live)] = w]
                /\ workers' = [workers EXCEPT ![w].state = "executing",
                                              ![w].session = Least(live)]
           ELSE /\ pool' = [pool EXCEPT ![k].holder[Least(NewSlots(k))] = w]
                /\ workers' = [workers EXCEPT ![w].state = "executing",
                                              ![w].session = Least(NewSlots(k))]
    /\ UNCHANGED <<cmdVars, plan, pending, recorded, schedState, cancelled>>

\* 4.3: acquire(kind): a free session is reused, else one is launched while
\* the kind has fewer than N; a failed launch is the item's `error` outcome
\* and counts towards giving the kind up
Acquire(w) ==
    /\ workers[w].state = "acquiring"
    /\ LET k == plan[workers[w].item].driver
       IN  IF FreeSlots(k) # {}
           THEN /\ pool' = [pool EXCEPT ![k].holder[Least(FreeSlots(k))] = w,
                                        ![k].failures = 0]
                /\ workers' = [workers EXCEPT ![w].state = "executing",
                                              ![w].session = Least(FreeSlots(k))]
           ELSE /\ NewSlots(k) # {}
                /\ \E launched \in BOOLEAN :
                      IF launched
                      THEN /\ pool' = [pool EXCEPT ![k].holder[Least(NewSlots(k))] = w,
                                                   ![k].failures = 0]
                           /\ workers' = [workers EXCEPT ![w].state = "executing",
                                                         ![w].session = Least(NewSlots(k))]
                      ELSE /\ pool' = [pool EXCEPT
                                          ![k].failures = @ + 1,
                                          ![k].available = (pool[k].failures + 1 < FailThreshold)]
                           /\ workers' = [workers EXCEPT ![w].state = "emitting",
                                                         ![w].status = "error"]
    /\ UNCHANGED <<cmdVars, plan, pending, recorded, schedState, cancelled>>

\* 4.4: the test case is executed against the session and the session is
\* released, whatever the execution primitive returned
Execute(w) ==
    /\ workers[w].state = "executing"
    /\ \E status \in {"passed", "failed", "error"} :
          workers' = [workers EXCEPT ![w].state = "emitting", ![w].status = status,
                                     ![w].session = 0]
    /\ pool' = [pool EXCEPT ![plan[workers[w].item].driver].holder[workers[w].session] = 0]
    /\ UNCHANGED <<cmdVars, plan, pending, recorded, schedState, cancelled>>

Outcome(item, status) == [item |-> item, status |-> status]

Identity(item) == <<item.test, item.driver>>

\* 4.5: record(outcome); a second outcome for the same work item is signalled
Record(w) ==
    /\ workers[w].state = "emitting"
    /\ LET item == plan[workers[w].item]
       IN  IF \E j \in DOMAIN recorded : Identity(recorded[j].item) = Identity(item)
           THEN /\ raised' = Raise("AggregationError", "work item recorded twice", item.test)
                /\ UNCHANGED recorded
           ELSE /\ recorded' = Append(recorded, Outcome(item, workers[w].status))
                /\ UNCHANGED raised
    /\ workers' = [workers EXCEPT ![w] = IdleWorker]
    /\ UNCHANGED <<catalog, args, test_execution, pc, queries, calls,
                   plan, pending, pool, schedState, cancelled>>

\* 5: the run is cancelled while work items are still queued
Cancel ==
    /\ schedState = "Dispatching"
    /\ ~cancelled
    /\ cancelled' = TRUE
    /\ UNCHANGED <<cmdVars, plan, pending, workers, pool, recorded, schedState>>

\* 4.5: finalize(): every expected outcome is recorded; the call returns
Finalize ==
    /\ pc = "in_runner"
    /\ schedState = "Draining"
    /\ \A w \in DOMAIN workers : workers[w].state = "idle"
    /\ Len(recorded) = Len(plan)
    /\ schedState' = "Completed"
    /\ pc' = "returned"
    /\ UNCHANGED <<catalog, args, test_execution, queries, calls, raised,
                   plan, pending, workers, pool, recorded, cancelled>>

\* the invocations the runner is explored with: project demo, its suite, its
\* directory, one of its test cases and a name that is none of them, with
\* a plan of at most MaxItems work items
RunArgs(cat) ==
    {a \in Args : /\ a.project = "demo"
                  /\ a.timestamp = ""
                  /\ a.drivers \in {NoDrivers, DriverList(<<>>), DriverList(<<"chrome">>),
                                    DriverList(<<"chrome", "firefox">>),
                                    DriverList(<<"chrome", "chrome">>)}
                  /\ a.test_or_suite \in {<<"smoke">>, <<"login">>, <<"login", "t1">>,
                                          <<"login", "admin">>}
                  /\ Cardinality(cat.tests) * Len(PlanKinds(a.drivers)) <= MaxItems}

InvokeRun == pc = "idle" /\ \E a \in RunArgs(catalog) : Invoke({a})

RunInit == InitWith(RunCatalogs)

WorkerStep ==
    \E w \in DOMAIN workers : Dequeue(w) \/ Acquire(w) \/ Execute(w) \/ Record(w)

RunNext ==
    \/ InvokeRun
    \/ AssignArgs
    \/ CheckProject
    \/ CheckTarget
    \/ TrySuite
    \/ TryDirectory
    \/ TryTestCase
    \/ StartRun
    \/ \E w \in DOMAIN workers : Dequeue(w)
    \/ \E w \in DOMAIN workers : Acquire(w)
    \/ \E w \in DOMAIN workers : Execute(w)
    \/ \E w \in DOMAIN workers : Record(w)
    \/ Cancel
    \/ Finalize

RunSpec == RunInit /\ [][RunNext]_vars

\* the runner and its workers keep running: a step of the run that can be
\* taken (anything but a cancellation) is eventually taken
RunProgress == StartRun \/ WorkerStep \/ Finalize

RunFairSpec == RunSpec /\ WF_vars(RunProgress)

----------------------------------------------------------------------------
(* Properties of RunCommand.run, checked under Spec.                       *)

Target == args.test_or_suite

\* RunCommand.run is over: it raised, or the test runner call returned
Done == pc \in {"raised", "returned"}

ProjectExists == args.project \in catalog.projects

DeclaredSuite(t) == t \in catalog.suites
Directory(t) == t \in catalog.dirs
FirstLevelDirectory(t) == t \in catalog.dirs /\ Len(t) = 1
TestCase(t) == t \in catalog.tests

RanDeclaredSuite == calls = <<Call("run_suite", args.project, Target, FALSE)>>
RanDirectorySuite == calls = <<Call("run_suite", args.project, Target, TRUE)>>
RanSingleTest == calls = <<Call("run_single_test_case", args.project, Target, FALSE)>>

ResolutionQueries == {"test_suite_exists", "is_first_level_directory", "test_case_exists"}

Count(seq, x) == Cardinality({i \in DOMAIN seq : seq[i] = x})

\* C1 (as stated): for an existing project and a non-empty target, a declared
\* suite is run as a declared suite; otherwise a directory (of any depth) is
\* run as a directory suite; only a target that is neither is run as a
\* single test case.
C1_PriorityAnyDirectory ==
    (Done /\ ProjectExists /\ Target # <<>>) =>
        /\ DeclaredSuite(Target) => RanDeclaredSuite
        /\ (~DeclaredSuite(Target) /\ Directory(Target)) => RanDirectorySuite
        /\ RanSingleTest => (~DeclaredSuite(Target) /\ ~Directory(Target))

\* C1 (amended): the same priority with "directory" read as the code's check
\* reads it, a first-level directory: declared suite > first-level directory
\* > test case, whatever else carries the same name.
C1_Priority ==
    (Done /\ ProjectExists /\ Target # <<>>) =>
        /\ DeclaredSuite(Target) => RanDeclaredSuite
        /\ (~DeclaredSuite(Target) /\ FirstLevelDirectory(Target)) => RanDirectorySuite
        /\ RanSingleTest =>
              (~DeclaredSuite(Target) /\ ~FirstLevelDirectory(Target) /\ TestCase(Target))

\* a name that is a suite, a directory and a test case at once was run as the suite
C1_Witness ==
    /\ pc = "returned" /\ ProjectExists
    /\ DeclaredSuite(Target) /\ FirstLevelDirectory(Target) /\ TestCase(Target)
    /\ RanDeclaredSuite

\* C2: for an existing project, a non-empty target that is neither a declared
\* suite nor a directory nor a test case never reaches the test runner, and
\* the run ends with a CommandException whose message names the target.
C2_NotFoundNamesTarget ==
    (ProjectExists /\ Target # <<>>
       /\ ~DeclaredSuite(Target) /\ ~Directory(Target) /\ ~TestCase(Target)) =>
        /\ calls = <<>>
        /\ pc # "returned"
        /\ Done => /\ raised.exc = "CommandException"
                   /\ raised.text = "the value {0} does not match an existing suite or test"
                   /\ raised.value = Target

C2_Witness ==
    /\ pc = "raised" /\ ProjectExists /\ Target = <<"smoke">>
    /\ ~DeclaredSuite(Target) /\ ~Directory(Target) /\ ~TestCase(Target)
    /\ raised.value = <<"smoke">>

\* C3: with a non-empty project that is not in the project list the run is
\* never past the project check: no resolution query and no test runner call
\* is made, the project list is read once, and the run ends by raising.
C3_UnknownProjectRaisesFirst ==
    (args.project # "" /\ ~ProjectExists) =>
        /\ \A i \in DOMAIN queries : queries[i] \notin ResolutionQueries
        /\ calls = <<>>
        /\ Count(queries, "get_projects") <= 1
        /\ pc \in {"assign", "check_project", "raised"}
        /\ pc = "raised" => (raised.exc # "none" /\ queries = <<"get_projects">>)

C3_Witness ==
    /\ pc = "raised" /\ args.project = "ghost" /\ ~ProjectExists
    /\ Target # <<>> /\ raised.exc = "CommandException"

\* C4 (as stated): for an existing project, a target that is no declared suite
\* and is a directory of the test-case tree, first-level or nested, is run as
\* a directory suite.
C4_AnyDirectoryRunsAsSuite ==
    (Done /\ ProjectExists /\ ~DeclaredSuite(Target) /\ Directory(Target)) =>
        (RanDirectorySuite /\ raised.exc = "none")

\* C4 (amended): for an existing project, a target that is no declared suite
\* and is a first-level directory of the test-case tree is run as a directory
\* suite, not as a single test and not as a not-found error.
C4_FirstLevelDirectoryRunsAsSuite ==
    (Done /\ ProjectExists /\ ~DeclaredSuite(Target) /\ FirstLevelDirectory(Target)) =>
        (RanDirectorySuite /\ raised.exc = "none" /\ "test" \notin test_execution.assigned)

C4_Witness ==
    /\ pc = "returned" /\ ProjectExists
    /\ ~DeclaredSuite(Target) /\ FirstLevelDirectory(Target) /\ ~TestCase(Target)
    /\ RanDirectorySuite

\* C9: invoked with no project, or with an existing project and no
\* test_or_suite value, the run ends by raising CommandException and calls
\* neither run_suite nor run_single_test_case.
C9_UsageIsCommandException ==
    (Done /\ (args.project = "" \/ (ProjectExists /\ Target = <<>>))) =>
        (raised.exc = "CommandException" /\ calls = <<>>)

\* C10: an invocation calls the test runner at most once and only for a
\* project found in the project list; when it is over it has either made one
\* call and raised nothing or raised and made no call; `suite` is assigned
\* exactly on the two run_suite outcomes, `test` exactly on the
\* run_single_test_case outcome, never both.
C10_OneOutcome ==
    /\ Len(calls) <= 1
    /\ calls # <<>> =>
          /\ ProjectExists /\ Count(queries, "get_projects") = 1
          /\ RanDeclaredSuite \/ RanDirectorySuite \/ RanSingleTest
    /\ Done => ((raised.exc # "none") <=> (calls = <<>>))
    /\ pc = "returned" <=> (Done /\ calls # <<>>)
    /\ "suite" \in test_execution.assigned <=> (RanDeclaredSuite \/ RanDirectorySuite)
    /\ "test" \in test_execution.assigned <=> RanSingleTest
    /\ ~({"suite", "test"} \subseteq test_execution.assigned)

C10_Witness ==
    /\ pc = "returned" /\ RanSingleTest /\ DeclaredSuite(<<"login">>)
    /\ test_execution.assigned = {"thread_amount", "drivers", "timestamp", "project",
                                  "settings", "test"}

----------------------------------------------------------------------------
(* Properties of the run as a whole, checked under RunSpec / RunFairSpec.  *)

\* the run has been handed to the test runner and its plan is built
Planned == schedState # "Idle"

InFlight == {w \in DOMAIN workers : workers[w].state # "idle"}

RecordedTimes(item) ==
    Cardinality({j \in DOMAIN recorded : recorded[j].item = item})

\* no outcome is recorded for anything but a planned item, none twice, and
\* once no item is queued or in flight every planned item has its outcome
RecordedOnce ==
    /\ \A j \in DOMAIN recorded : \E i \in DOMAIN plan : plan[i] = recorded[j].item
    /\ \A i \in DOMAIN plan : RecordedTimes(plan[i]) <= 1
    /\ \A i, j \in DOMAIN plan : i # j => Identity(plan[i]) # Identity(plan[j])
    /\ (Planned /\ pending = <<>> /\ InFlight = {}) =>
          \A i \in DOMAIN plan : RecordedTimes(plan[i]) = 1
    /\ schedState = "Completed" =>
          /\ Len(recorded) = Len(plan)
          /\ \A i \in DOMAIN plan : RecordedTimes(plan[i]) = 1

\* steps the run still has to take: four per queued item (dequeue, acquire,
\* execute, record), what is left of each item in flight, and the finalize
StepsLeft(w) ==
    CASE w.state = "acquiring" -> 3
      [] w.state = "executing" -> 2
      [] w.state = "emitting" -> 1
      [] OTHER -> 0

RECURSIVE StepsInFlight(_)
StepsInFlight(n) == IF n = 0 THEN 0 ELSE StepsLeft(workers[n]) + StepsInFlight(n - 1)

Remaining ==
    4 * Len(pending) + StepsInFlight(Len(workers))
      + (IF schedState = "Completed" THEN 0 ELSE 1)

\* C5: with thread amount N > 1 and a plan of K work items, whatever the
\* interleaving of the workers, every planned item is recorded exactly once
\* and the run completes with a report of exactly K entries.  "Eventually"
\* is stated by its two halves: until the run has completed a step of the
\* runner is enabled, and every step of the runner but the one cancellation
\* lowers the number of steps left.
C5_AllRecordedOnce ==
    /\ [](args.threads > 1 =>
            /\ RecordedOnce
            /\ pc = "in_runner" => ENABLED RunProgress
            /\ pc = "returned" => (schedState = "Completed" /\ Len(recorded) = Len(plan)))
    /\ [][(args.threads > 1 /\ pc = "in_runner") =>
            \/ schedState = "Idle" /\ schedState' # "Idle"
            \/ /\ schedState # "Idle" /\ schedState' # "Idle"
               /\ cancelled' = cancelled
               /\ Remaining' < Remaining
            \/ /\ ~cancelled /\ cancelled'
               /\ Remaining' = Remaining]_vars

\* C5, the same said with leads-to (checked under RunFairSpec)
C5_EventuallyCompleted ==
    (pc = "in_runner" /\ args.threads > 1) ~>
        (schedState = "Completed" /\ Len(recorded) = Len(plan))

\* a run with two work items under two workers completed, the second item
\* recorded before the first
C5_Witness ==
    /\ schedState = "Completed" /\ args.threads = 2 /\ Len(plan) = 4
    /\ Len(recorded) = 4
    /\ recorded[1].item = plan[2] /\ recorded[2].item = plan[1]
    /\ recorded[1].status = "failed" /\ recorded[2].status = "passed"

\* C6: with thread amount 0 (the default of --threads) or 1 there is one
\* worker, so at most one work item is in flight, and the outcomes are
\* recorded in the order of the plan.
C6_Sequential ==
    (args.threads \in {DefaultThreads, 0, 1}) =>
        /\ Len(workers) <= 1
        /\ Cardinality(InFlight) <= 1
        /\ Len(recorded) <= Len(plan)
        /\ \A j \in DOMAIN recorded : recorded[j].item = plan[j]

C6_Witness ==
    /\ schedState = "Completed" /\ args.threads = DefaultThreads
    /\ Len(plan) = 4 /\ Len(recorded) = 4
    /\ plan[1].test # plan[3].test
    /\ \A j \in 1..4 : recorded[j].item = plan[j]

\* C7: a driver session is held by at most one worker at a time: two workers
\* that are executing never use the same session of the same driver kind, and
\* the pool's holder of a session is the one worker executing on it.
C7_SessionExclusive ==
    /\ \A v, w \in DOMAIN workers :
          (v # w /\ workers[v].state = "executing" /\ workers[w].state = "executing"
             /\ plan[workers[v].item].driver = plan[workers[w].item].driver) =>
              workers[v].session # workers[w].session
    /\ \A w \in DOMAIN workers :
          workers[w].state = "executing" =>
              pool[plan[workers[w].item].driver].holder[workers[w].session] = w
    /\ \A k \in DOMAIN pool : \A sn \in DOMAIN pool[k].holder :
          pool[k].holder[sn] > 0 =>
              /\ workers[pool[k].holder[sn]].state = "executing"
              /\ workers[pool[k].holder[sn]].session = sn
              /\ plan[workers[pool[k].holder[sn]].item].driver = k

\* two workers execute on two sessions of the same driver kind
C7_Witness ==
    /\ Len(workers) = 2
    /\ workers[1].state = "executing" /\ workers[2].state = "executing"
    /\ plan[workers[1].item].driver = plan[workers[2].item].driver
    /\ workers[1].session # workers[2].session

\* the test cases the target of the invocation stands for
TargetTests ==
    IF DeclaredSuite(Target) THEN Range(catalog.stored)
    ELSE IF FirstLevelDirectory(Target)
    THEN {t \in catalog.tests : IsPrefix(Target, t) /\ t # Target}
    ELSE {Target}

RequestedKinds == Range(args.drivers.kinds)

\* C8: with an explicit driver list of M >= 1 driver kinds the plan built for
\* a resolution of N test cases holds exactly N x M work items, one for every
\* (test case, driver kind) pair; a single test with [chrome, firefox] gives
\* two work items.
C8_PlanIsCrossProduct ==
    (Planned /\ args.drivers.given /\ RequestedKinds # {}) =>
        /\ Len(plan) = Cardinality(TargetTests) * Cardinality(RequestedKinds)
        /\ \A t \in TargetTests : \A k \in RequestedKinds :
              Cardinality({i \in DOMAIN plan : plan[i].test = t /\ plan[i].driver = k}) = 1

C8_Witness ==
    /\ Planned /\ RanSingleTest
    /\ args.drivers = DriverList(<<"chrome", "firefox">>)
    /\ Len(plan) = 2 /\ plan[1].driver = "chrome" /\ plan[2].driver = "firefox"
    /\ plan[1].test = Target /\ plan[2].test = Target

====
